---- MODULE Spec2Model ----
(***************************************************************************)
(* The session/statistics aggregation server of emotion-video-chat.       *)
(* The server source is the JavaScript listing in src/README.md           *)
(* (lines 218-421): one WebSocket server that tallies emotion records per *)
(* connection, plus the REST query handlers over the in-memory state.     *)
(* The browser client is src/unnamed/part_000 (App), part_001              *)
(* (VideoStream) and src/src/components/StatsPanel.tsx.                    *)
(*                                                                         *)
(* Representation choices:                                                 *)
(*   - times are integer milliseconds (Date.now());                        *)
(*   - a confidence is an integer number of hundredths (0..100 for [0,1]); *)
(*   - a JavaScript quotient a / b is kept exact as [num |-> a, den |-> b];*)
(*   - an optional value (a JSON field, a query parameter) is a sequence:  *)
(*     <<>> when absent, <<v>> when present.                                *)
(***************************************************************************)
EXTENDS Integers, Sequences, FiniteSets, TLC

(***************************************************************************)
(* Bounds of the model.                                                    *)
(***************************************************************************)
MaxConns == 2
MaxIngest == 2
MaxTicks == 2
MaxCount == 2
MaxStored == 20
MaxTrimIngest == 110
MaxPending == 2
MaxSamples == 3

(***************************************************************************)
(* Program constants.                                                      *)
(***************************************************************************)
KeepRecords == 1000
TrimEvery == 100
WindowMs == 5 * 60 * 1000
MsPerSecond == 1000
DefaultLimit == 100
SessionsShown == 10
SampleMs == 100
TrendKeep == 49

\* The keys of sessionStats.emotionDistribution, in insertion order.
EmotionOrder == <<"happy", "sad", "angry", "surprised", "neutral">>
Emotions == {EmotionOrder[i] : i \in 1..Len(EmotionOrder)}

VARIABLES
  now,                  \* Date.now()
  ticks,                \* number of clock advances so far (bounds the model)
  conn,                 \* per connection: state, sessionStart, history
  totalSessions,        \* sessionStats.totalSessions
  sessions,             \* sessionStats.sessions
  emotionDistribution,  \* sessionStats.emotionDistribution
  emotionData,          \* emotionData
  ingested,             \* number of records ever pushed onto emotionData
  trims,                \* number of times cleanupData cut emotionData
  lastDrop,             \* the last payload that was dropped (history)
  response,             \* the body of the last HTTP response
  serverState,          \* the HTTP server: "listening", "closing", "exited"
  client                \* the browser client (App and VideoStream)

vars == <<now, ticks, conn, totalSessions, sessions, emotionDistribution,
          emotionData, ingested, trims, lastDrop, response, serverState,
          client>>

Conns == 1..MaxConns

(***************************************************************************)
(* JavaScript helpers.                                                     *)
(***************************************************************************)
\* Array.prototype.slice(start) with one argument.
JsSlice(s, start) ==
  LET k == IF start < 0
             THEN (IF Len(s) + start > 0 THEN Len(s) + start ELSE 0)
             ELSE (IF start < Len(s) THEN start ELSE Len(s))
  IN SubSeq(s, k + 1, Len(s))

\* Truthiness of an optional string / an optional number (undefined, "" and 0
\* are falsy).
TruthyStr(f) == f # <<>> /\ f[1] # ""
TruthyNum(f) == f # <<>> /\ f[1] # 0

\* parseInt(q) || dflt, for a query parameter that is absent or an integer.
ParseIntOr(q, dflt) == IF q = <<>> \/ q[1] = 0 THEN dflt ELSE q[1]

\* Exact quotients.
Rat(n, d) == [num |-> n, den |-> d]
RatZero == Rat(0, 1)

(***************************************************************************)
(* Inbound payloads: what JSON.parse(data.toString()) yields.              *)
(***************************************************************************)
Payload(e, c, t) == [parses |-> TRUE, emotion |-> e, confidence |-> c, timestamp |-> t]
Unparseable == [parses |-> FALSE, emotion |-> <<>>, confidence |-> <<>>, timestamp |-> <<>>]

\* What clients send: a frame that is not JSON, and the record
\* {emotion: "happy", confidence: 1, timestamp: 1000} with one field at a
\* time absent, falsy or changed ("fear" is a label outside the enumeration).
EmotionInputs == {<<>>, <<"">>, <<"happy">>, <<"sad">>, <<"fear">>}
ConfidenceInputs == {<<>>, <<0>>, <<100>>}
TimestampInputs == {<<>>, <<0>>, <<1000>>}
Payloads ==
  {Unparseable}
    \cup {Payload(e, <<100>>, <<1000>>) : e \in EmotionInputs}
    \cup {Payload(<<"happy">>, c, <<1000>>) : c \in ConfidenceInputs}
    \cup {Payload(<<"happy">>, <<100>>, t) : t \in TimestampInputs}

HasAllFields(m) == m.parses /\ m.emotion # <<>> /\ m.confidence # <<>> /\ m.timestamp # <<>>

\* The validation of line 282.
Validate(m) ==
  m.parses /\ TruthyStr(m.emotion) /\ TruthyNum(m.confidence) /\ TruthyNum(m.timestamp)

(***************************************************************************)
(* State after construction.                                               *)
(***************************************************************************)
NoResponse == [kind |-> "none"]

\* A connection: its state ("idle" before it is opened, "open", "failing"
\* between a transport error and the close that follows it, "closed"), the
\* sessionStart of its closure, and (history) the value of the session
\* counter when it was opened, the times at which it was opened and closed,
\* and whether it had a transport error.
IdleConn ==
  [state |-> "idle", sessionStart |-> 0, allocated |-> 0, openedAt |-> 0,
   closedAt |-> 0, errored |-> FALSE]

\* History of the last dropped payload: its connection, how it was dropped,
\* and whether a payload was stored on that connection since.
NoDrop == [conn |-> 0, kind |-> "none", recovered |-> FALSE]

\* The client after its first render: detection off, the face model not
\* loaded yet, no interval, the socket connecting, nothing drawn or sent.
\* pending is the number of detectEmotion calls waiting for estimateFaces;
\* delivered (history) holds the records handed to the App since the trend
\* list was last reset.
ClientInit ==
  [isDetecting |-> FALSE, detector |-> FALSE, interval |-> FALSE,
   pending |-> 0, overlay |-> FALSE, readyState |-> "connecting",
   isConnected |-> FALSE, emotions |-> <<>>, currentEmotion |-> <<>>,
   sent |-> <<>>, delivered |-> <<>>]

Init ==
  /\ now = 0
  /\ ticks = 0
  /\ conn = [c \in Conns |-> IdleConn]
  /\ totalSessions = 0
  /\ sessions = <<>>
  /\ emotionDistribution = [e \in Emotions |-> 0]
  /\ emotionData = <<>>
  /\ ingested = 0
  /\ trims = 0
  /\ lastDrop = NoDrop
  /\ response = NoResponse
  /\ serverState = "listening"
  /\ client = ClientInit

(***************************************************************************)
(* The clock.                                                              *)
(***************************************************************************)
Tick(d) ==
  /\ ticks < MaxTicks
  /\ now' = now + d
  /\ ticks' = ticks + 1
  /\ response' = NoResponse
  /\ UNCHANGED <<conn, totalSessions, sessions, emotionDistribution,
                 emotionData, ingested, trims, lastDrop, serverState, client>>

(***************************************************************************)
(* wss.on('connection')                                                    *)
(***************************************************************************)
ConnectUncounted(c) ==
  /\ serverState = "listening"
  /\ conn[c].state = "idle"
  /\ \A b \in Conns : b < c => conn[b].state # "idle"
  /\ conn' = [conn EXCEPT ![c] = [state |-> "open", sessionStart |-> now,
                                  allocated |-> totalSessions + 1,
                                  openedAt |-> now, closedAt |-> 0,
                                  errored |-> FALSE]]
  /\ response' = NoResponse
  /\ UNCHANGED <<now, ticks, totalSessions, sessions, emotionDistribution,
                 emotionData, ingested, trims, lastDrop, serverState, client>>
Connect(c) ==
  /\ serverState = "listening"
  /\ conn[c].state = "idle"
  /\ \A b \in Conns : b < c => conn[b].state # "idle"
  /\ totalSessions' = totalSessions + 1
  /\ conn' = [conn EXCEPT ![c] = [state |-> "open", sessionStart |-> now,
                                  allocated |-> totalSessions + 1,
                                  openedAt |-> now, closedAt |-> 0,
                                  errored |-> FALSE]]
  /\ response' = NoResponse
  /\ UNCHANGED <<now, ticks, sessions, emotionDistribution, emotionData,
                 ingested, trims, lastDrop, serverState, client>>

(***************************************************************************)
(* ws.on('message')                                                        *)
(***************************************************************************)
\* The record pushed at lines 284-288.
StoredRecord(m, sid, at) ==
  [emotion |-> m.emotion[1], confidence |-> m.confidence[1],
   timestamp |-> m.timestamp[1], sessionId |-> sid, receivedAt |-> at]

\* The sessionId given to a record received on connection c.
SessionIdFor(c) == totalSessions

\* Lines 291-293.
Tally(dist, e) == IF e \in DOMAIN dist THEN [dist EXCEPT ![e] = @ + 1] ELSE dist

\* cleanupData, lines 246-250.
cleanupNothing(data) == data
cleanupKeepsOldest(data) ==
  IF Len(data) > KeepRecords THEN SubSeq(data, 1, KeepRecords) ELSE data
cleanupData(data) ==
  IF Len(data) > KeepRecords THEN JsSlice(data, -KeepRecords) ELSE data

\* Lines 296-298.
TrimDue(data) == Len(data) % TrimEvery = 0

\* How a payload is dropped: JSON.parse throws and the catch logs it
\* ("caught"), a required field is undefined ("absent"), or every field is
\* there and one of them is falsy ("falsy").
DropKind(m) ==
  IF ~m.parses THEN "caught" ELSE IF ~HasAllFields(m) THEN "absent" ELSE "falsy"

\* Lines 301-304: a payload that fails the validation is skipped, one that
\* throws is logged; either way the socket is left as it is.
ConnAfterDropCloses(c) == [conn EXCEPT ![c].state = "closed"]
ConnAfterDrop(c) == conn

Message(c, m) ==
  /\ conn[c].state = "open"
  /\ IF Validate(m)
       THEN LET pushed == Append(emotionData, StoredRecord(m, SessionIdFor(c), now))
                kept == IF TrimDue(pushed) THEN cleanupData(pushed) ELSE pushed
            IN /\ emotionData' = kept
               /\ emotionDistribution' = Tally(emotionDistribution, m.emotion[1])
               /\ ingested' = ingested + 1
               /\ trims' = IF Len(kept) < Len(pushed) THEN trims + 1 ELSE trims
               /\ lastDrop' = IF lastDrop.conn = c
                                THEN [lastDrop EXCEPT !.recovered = TRUE]
                                ELSE lastDrop
               /\ conn' = conn
       ELSE /\ UNCHANGED <<emotionData, emotionDistribution, ingested, trims>>
            /\ lastDrop' = [conn |-> c, kind |-> DropKind(m), recovered |-> FALSE]
            /\ conn' = ConnAfterDrop(c)
  /\ response' = NoResponse
  /\ UNCHANGED <<now, ticks, totalSessions, sessions, serverState, client>>

(***************************************************************************)
(* ws.on('close')                                                          *)
(***************************************************************************)
SessionFromEpoch(start, end) ==
  [start |-> start, end |-> end, duration |-> Rat(end, MsPerSecond)]
Session(start, end) ==
  [start |-> start, end |-> end, duration |-> Rat(end - start, MsPerSecond)]

Close(c) ==
  /\ conn[c].state \in {"open", "failing"}
  /\ sessions' = Append(sessions, Session(conn[c].sessionStart, now))
  /\ conn' = [conn EXCEPT ![c].state = "closed", ![c].closedAt = now]
  /\ response' = NoResponse
  /\ UNCHANGED <<now, ticks, totalSessions, emotionDistribution, emotionData,
                 ingested, trims, lastDrop, serverState, client>>

(***************************************************************************)
(* ws.on('error'): the handler logs the error.  The transport is broken    *)
(* from then on: no message is delivered any more, and the socket's close  *)
(* event follows.                                                          *)
(***************************************************************************)
ErrorFinalizes(c) ==
  /\ conn[c].state = "open"
  /\ conn' = [conn EXCEPT ![c].state = "failing", ![c].errored = TRUE]
  /\ sessions' = Append(sessions, Session(conn[c].sessionStart, now))
  /\ response' = NoResponse
  /\ UNCHANGED <<now, ticks, totalSessions, emotionDistribution, emotionData,
                 ingested, trims, lastDrop, serverState, client>>
Error(c) ==
  /\ conn[c].state = "open"
  /\ conn' = [conn EXCEPT ![c].state = "failing", ![c].errored = TRUE]
  /\ response' = NoResponse
  /\ UNCHANGED <<now, ticks, totalSessions, sessions, emotionDistribution,
                 emotionData, ingested, trims, lastDrop, serverState, client>>

(***************************************************************************)
(* process.on('SIGINT'): server.close(callback) stops the server from      *)
(* accepting connections and keeps the existing ones; it runs the callback,*)
(* which calls process.exit(0), once every connection has ended.  The      *)
(* handler closes no client socket.  Once the process has exited no        *)
(* connection is left, so no other handler runs.                           *)
(***************************************************************************)
Interrupt ==
  /\ serverState = "listening"
  /\ serverState' = "closing"
  /\ response' = NoResponse
  /\ UNCHANGED <<now, ticks, conn, totalSessions, sessions, emotionDistribution,
                 emotionData, ingested, trims, lastDrop, client>>

\* The callback passed to server.close.
ServerClosed ==
  /\ serverState = "closing"
  /\ \A c \in Conns : conn[c].state \notin {"open", "failing"}
  /\ serverState' = "exited"
  /\ response' = NoResponse
  /\ UNCHANGED <<now, ticks, conn, totalSessions, sessions, emotionDistribution,
                 emotionData, ingested, trims, lastDrop, client>>

(***************************************************************************)
(* GET /api/stats                                                          *)
(***************************************************************************)
\* Line 334: the records received within the last five minutes.
InWindowInclusive(e, t) == e.receivedAt >= t - WindowMs
InWindow(e, t) == e.receivedAt > t - WindowMs
RecentEmotions(data, t) == SelectSeq(data, LAMBDA e : InWindow(e, t))

RECURSIVE TotalConfidence(_)
\* Line 337: recentEmotions.reduce((sum, emotion) => sum + emotion.confidence, 0)
TotalConfidence(recent) ==
  IF recent = <<>> THEN 0 ELSE Head(recent).confidence + TotalConfidence(Tail(recent))

\* Line 338.
AverageConfidence(recent) ==
  IF Len(recent) > 0 THEN Rat(TotalConfidence(recent), Len(recent)) ELSE RatZero

RECURSIVE TotalDurationMs(_)
\* Line 341: sessions.reduce((sum, session) => sum + session.duration, 0);
\* every duration is a quotient by MsPerSecond, and so is their sum.
TotalDurationMs(ss) ==
  IF ss = <<>> THEN 0 ELSE Head(ss).duration.num + TotalDurationMs(Tail(ss))

\* Line 342.
AverageOverAllSessions(ss) ==
  IF Len(ss) > 0
    THEN Rat(TotalDurationMs(ss), MsPerSecond * totalSessions)
    ELSE RatZero
AverageSessionDuration(ss) ==
  IF Len(ss) > 0
    THEN Rat(TotalDurationMs(ss), MsPerSecond * Len(ss))
    ELSE RatZero

\* Lines 345-349: the reduce over Object.entries, from {neutral, 0}.
BeatsOrTiesMax(count, max) == count >= max.count
BeatsMax(count, max) == count > max.count
PeakStart == [emotion |-> "neutral", count |-> 0]
RECURSIVE PeakFrom(_, _, _)
PeakFrom(dist, i, max) ==
  IF i > Len(EmotionOrder) THEN max
  ELSE PeakFrom(dist, i + 1,
                IF BeatsMax(dist[EmotionOrder[i]], max)
                  THEN [emotion |-> EmotionOrder[i], count |-> dist[EmotionOrder[i]]]
                  ELSE max)
PeakEmotion(dist) == PeakFrom(dist, 1, PeakStart).emotion

StatsBody ==
  LET recent == RecentEmotions(emotionData, now)
  IN [kind |-> "stats",
      totalSessions |-> totalSessions,
      averageSessionDuration |-> AverageSessionDuration(sessions),
      emotionDistribution |-> emotionDistribution,
      peakEmotion |-> PeakEmotion(emotionDistribution),
      confidenceAverage |-> AverageConfidence(recent),
      recentEmotionsCount |-> Len(recent),
      totalEmotionsCount |-> Len(emotionData)]

Respond(body) ==
  /\ serverState # "exited"
  /\ response' = body
  /\ UNCHANGED <<now, ticks, conn, totalSessions, sessions, emotionDistribution,
                 emotionData, ingested, trims, lastDrop, serverState, client>>

GetStats == Respond(StatsBody)

(***************************************************************************)
(* GET /api/emotions?limit=&offset=                                        *)
(***************************************************************************)
\* The projection of lines 372-377.
Projected(e) ==
  [emotion |-> e.emotion, confidence |-> e.confidence,
   timestamp |-> e.timestamp, receivedAt |-> e.receivedAt]
ProjectAll(s) == [i \in 1..Len(s) |-> Projected(s[i])]

\* Lines 369-371.
PageOffsetFirst(data, limit, offset) == JsSlice(JsSlice(data, offset), -limit)
Page(data, limit, offset) == JsSlice(JsSlice(data, -limit), offset)

EmotionsBody(lq, oq) ==
  LET limit == ParseIntOr(lq, DefaultLimit)
      offset == ParseIntOr(oq, 0)
  IN [kind |-> "emotions",
      emotions |-> ProjectAll(Page(emotionData, limit, offset)),
      total |-> Len(emotionData),
      limit |-> limit,
      offset |-> offset]

GetEmotions(lq, oq) == Respond(EmotionsBody(lq, oq))

(***************************************************************************)
(* GET /api/sessions and GET /api/health                                   *)
(***************************************************************************)
\* wss.clients.size
CurrentConnections == Cardinality({c \in Conns : conn[c].state \in {"open", "failing"}})

SessionsBody ==
  [kind |-> "sessions",
   totalSessions |-> totalSessions,
   sessions |-> JsSlice(sessions, -SessionsShown),
   currentConnections |-> CurrentConnections]

GetSessions == Respond(SessionsBody)

HealthBody ==
  [kind |-> "health",
   connections |-> CurrentConnections,
   emotionDataCount |-> Len(emotionData)]

GetHealth == Respond(HealthBody)

(***************************************************************************)
(* The client: App (state, socket, handleEmotionDetected, toggleDetection) *)
(* and VideoStream (model loading, the capture interval, detectEmotion).   *)
(* The client's Date.now() is the variable now; it advances by the         *)
(* sampling period from one firing of the interval to the next.            *)
(***************************************************************************)
\* No server variable changes in a step of the client.
ServerUnchanged ==
  UNCHANGED <<ticks, conn, totalSessions, sessions, emotionDistribution,
              emotionData, ingested, trims, lastDrop, response, serverState>>

\* VideoStream's start/stop effect, run when isDetecting or detector changes:
\* its cleanup clears the running interval, then it either sets a new one
\* or clears the reference and the canvas.
CaptureEffect(cl) ==
  IF cl.isDetecting /\ cl.detector
    THEN [cl EXCEPT !.interval = TRUE]
    ELSE [cl EXCEPT !.interval = FALSE, !.overlay = FALSE]

\* initializeModel resolves: setDetector(faceDetector), and the effect runs.
ModelLoaded ==
  /\ ~client.detector
  /\ client' = CaptureEffect([client EXCEPT !.detector = TRUE])
  /\ UNCHANGED now
  /\ ServerUnchanged

\* toggleDetection, and the effect its state change triggers.
toggleDetection ==
  /\ client' =
       CaptureEffect(
         IF ~client.isDetecting
           THEN [client EXCEPT !.isDetecting = TRUE, !.emotions = <<>>,
                               !.currentEmotion = <<>>, !.delivered = <<>>]
           ELSE [client EXCEPT !.isDetecting = FALSE])
  /\ UNCHANGED now
  /\ ServerUnchanged

\* The interval fires and detectEmotion runs up to its await: it returns at
\* once when the video is not ready; otherwise it resizes the canvas (which
\* erases it) and calls estimateFaces.  setInterval does not wait for the
\* promise detectEmotion returns.
IntervalTick(videoReady) ==
  /\ client.interval
  /\ client.pending < MaxPending
  /\ now' = now + SampleMs
  /\ client' = IF videoReady
                 THEN [client EXCEPT !.pending = @ + 1, !.overlay = FALSE]
                 ELSE client
  /\ ServerUnchanged

\* classifyEmotion: a category and a confidence drawn at random, stamped
\* with the current time.
classifyEmotion(e, c) == [emotion |-> e, confidence |-> c, timestamp |-> now]

\* setEmotions(prev => [...prev.slice(-49), emotion])
TrendKeepsFifty(prev, emotion) == JsSlice(prev, -(TrendKeep + 1)) \o <<emotion>>
Trend(prev, emotion) == JsSlice(prev, -TrendKeep) \o <<emotion>>

\* handleEmotionDetected.
handleEmotionDetected(cl, emotion) ==
  [cl EXCEPT !.currentEmotion = <<emotion>>,
             !.emotions = Trend(@, emotion),
             !.delivered = Append(@, emotion),
             !.sent = IF cl.readyState = "open" THEN Append(@, emotion) ELSE @]

DetectionOutcomes == {"face", "none", "throws"}

\* estimateFaces settles and detectEmotion runs from its await to its end:
\* it clears the canvas and, with a face, draws the overlay and hands the
\* record to the App; a rejection is logged by the catch.
DetectionDone(outcome, e, c) ==
  /\ client.pending > 0
  /\ client' =
       LET cl == [client EXCEPT !.pending = @ - 1]
       IN CASE outcome = "throws" -> cl
            [] outcome = "none" -> [cl EXCEPT !.overlay = FALSE]
            [] outcome = "face" ->
                 handleEmotionDetected([cl EXCEPT !.overlay = TRUE],
                                       classifyEmotion(e, c))
  /\ UNCHANGED now
  /\ ServerUnchanged

\* ws.onopen
SocketOpen ==
  /\ client.readyState = "connecting"
  /\ client' = [client EXCEPT !.readyState = "open", !.isConnected = TRUE]
  /\ UNCHANGED now
  /\ ServerUnchanged

\* ws.onclose, after ws.onerror when the socket failed.
SocketClose ==
  /\ client.readyState \in {"connecting", "open"}
  /\ client' = [client EXCEPT !.readyState = "closed", !.isConnected = FALSE]
  /\ UNCHANGED now
  /\ ServerUnchanged

(***************************************************************************)
(* The socket protocol: any interleaving of opens, messages and closes     *)
(* over several connections, with every kind of payload.                   *)
(***************************************************************************)
Next ==
  \/ \E c \in Conns : Connect(c)
  \/ \E c \in Conns, m \in Payloads : ingested < MaxIngest /\ Message(c, m)
  \/ \E c \in Conns : Close(c)

Spec == Init /\ [][Next]_vars

(***************************************************************************)
(* Claims about the socket protocol.                                       *)
(***************************************************************************)
Last(s) == s[Len(s)]
IncompletePayloads == {m \in Payloads : ~HasAllFields(m)}
CompletePayloads == {m \in Payloads : HasAllFields(m)}
ValidPayloads == {m \in Payloads : Validate(m)}

\* C1: a record received on connection c carries as sessionId the value the
\* session counter had when c was opened, whatever was opened in between.
C1_SessionIdIsCounterAtOpen ==
  [][\A c \in Conns, m \in ValidPayloads :
       Message(c, m) =>
         Last(emotionData').sessionId = conn[c].allocated]_vars

\* C3: every message on an open connection that parses and has all three
\* fields (confidence 0 and 1 and every timestamp included) appends exactly
\* one record, holding the fields as sent, and adds exactly one to the
\* counter of its category.
C3_CompleteMessageIsStored ==
  [][\A c \in Conns, m \in CompletePayloads :
       Message(c, m) =>
         /\ Len(emotionData') = Len(emotionData) + 1
         /\ SubSeq(emotionData', 1, Len(emotionData)) = emotionData
         /\ Last(emotionData').emotion = m.emotion[1]
         /\ Last(emotionData').confidence = m.confidence[1]
         /\ Last(emotionData').timestamp = m.timestamp[1]
         /\ m.emotion[1] \in Emotions =>
              emotionDistribution' =
                [emotionDistribution EXCEPT ![m.emotion[1]] = @ + 1]]_vars

\* C4: a payload that does not parse or lacks a required field changes
\* neither the stored records, the distribution, the session counter nor
\* the session list, and leaves its connection open, so that the connection
\* goes on accepting messages.
C4_DroppedPayloadChangesNothing ==
  [][\A c \in Conns, m \in IncompletePayloads :
       Message(c, m) =>
         /\ UNCHANGED <<emotionData, emotionDistribution, totalSessions, sessions>>
         /\ conn'[c].state = "open"
         /\ \A b \in Conns \ {c} : conn'[b] = conn[b]]_vars

\* A connection on which a payload without all its fields was dropped, and
\* a later payload stored.
C4_Witness ==
  /\ lastDrop.kind \in {"caught", "absent"}
  /\ lastDrop.recovered
  /\ conn[lastDrop.conn].state = "open"
  /\ emotionData # <<>>

\* C5: the emotion of every stored record is one of the five categories.
C5_StoredEmotionsAreCategories ==
  \A i \in 1..Len(emotionData) : emotionData[i].emotion \in Emotions

\* C12: each counter is the number of emotion records of its category ever
\* received: a step adds one to the counter of category e when it is the
\* receipt, on an open connection, of a record of category e, and leaves the
\* counter alone otherwise (a close in particular); no step decreases one.
C12_CountersCountEveryReceivedRecord ==
  [][\A e \in Emotions :
       /\ emotionDistribution'[e] >= emotionDistribution[e]
       /\ (\E c \in Conns : Close(c)) =>
            emotionDistribution'[e] = emotionDistribution[e]
       /\ emotionDistribution'[e] =
            emotionDistribution[e] +
              (IF \E c \in Conns, m \in CompletePayloads :
                    m.emotion = <<e>> /\ Message(c, m)
                 THEN 1 ELSE 0)]_vars

(***************************************************************************)
(* Sessions over time: connections open and close while time passes in     *)
(* steps of two seconds, records arrive, and every endpoint is queried.    *)
(***************************************************************************)
SessionTickSteps == {2 * MsPerSecond}
SessionPayloads == {Payload(<<"happy">>, <<90>>, <<1000>>)}

NextSessions ==
  \/ \E d \in SessionTickSteps : Tick(d)
  \/ \E c \in Conns : Connect(c)
  \/ \E c \in Conns, m \in SessionPayloads : ingested < MaxIngest /\ Message(c, m)
  \/ \E c \in Conns : Close(c)
  \/ GetStats
  \/ GetEmotions(<<>>, <<>>)
  \/ GetSessions
  \/ GetHealth

SpecSessions == Init /\ [][NextSessions]_vars

(***************************************************************************)
(* Claims about sessions.                                                  *)
(***************************************************************************)
RatEq(a, b) == a.num * b.den = b.num * a.den

ClosedConns == {c \in Conns : conn[c].state = "closed"}
OpenConns == {c \in Conns : conn[c].state = "open"}
LifetimeMs(c) == conn[c].closedAt - conn[c].openedAt

RECURSIVE SumLifetimesMs(_)
SumLifetimesMs(S) ==
  IF S = {} THEN 0
  ELSE LET c == CHOOSE x \in S : TRUE IN LifetimeMs(c) + SumLifetimesMs(S \ {c})

\* C9: averageSessionDuration is the mean, in seconds, of close time minus
\* open time over the connections that have closed, and 0 when none has; an
\* open connection adds nothing to the sum or to the divisor.
C9_AverageSessionDurationIsMeanOfClosed ==
  response.kind = "stats" =>
    IF ClosedConns = {}
      THEN RatEq(response.averageSessionDuration, RatZero)
      ELSE RatEq(response.averageSessionDuration,
                 Rat(SumLifetimesMs(ClosedConns),
                     MsPerSecond * Cardinality(ClosedConns)))

\* Statistics taken while one connection has closed after two seconds and
\* another has been open for as long and is still open.
C9_Witness ==
  /\ response.kind = "stats"
  /\ \E c \in ClosedConns : LifetimeMs(c) = 2 * MsPerSecond
  /\ \E c \in OpenConns : now - conn[c].openedAt >= 2 * MsPerSecond
  /\ RatEq(response.averageSessionDuration, Rat(2, 1))

\* C10: a connection goes from open to closed once; its close appends one
\* Session whose start is its open time, whose end is its close time and
\* whose duration is their difference in seconds; no other step changes the
\* session list, which only grows at its end.
C10_SessionsAreFinalAndAppendOnly ==
  [][/\ \A c \in Conns :
          Close(c) =>
            /\ conn[c].state = "open" /\ conn'[c].state = "closed"
            /\ Len(sessions') = Len(sessions) + 1
            /\ Last(sessions').start = conn[c].openedAt
            /\ Last(sessions').end = now
            /\ RatEq(Last(sessions').duration,
                     Rat(now - conn[c].openedAt, MsPerSecond))
     /\ Len(sessions') >= Len(sessions)
     /\ SubSeq(sessions', 1, Len(sessions)) = sessions
     /\ sessions' # sessions => \E c \in Conns : Close(c)
     /\ \A c \in Conns : conn[c].state = "closed" => conn'[c] = conn[c]
     /\ Len(sessions') = Cardinality({c \in Conns : conn'[c].state = "closed"})]_vars

\* One connection opened, sent a happy record, closed two seconds later,
\* and the statistics were then read.
C10_Witness ==
  /\ Len(sessions) = 1
  /\ sessions[1].end - sessions[1].start = 2 * MsPerSecond
  /\ sessions[1].duration = Rat(2 * MsPerSecond, MsPerSecond)
  /\ emotionDistribution["happy"] = 1
  /\ response.kind = "stats"
  /\ response.peakEmotion = "happy"

\* The connections that have been opened and have not closed yet.
NotYetClosed == {c \in Conns : conn[c].state \notin {"idle", "closed"}}

\* C19: in every reachable state totalSessions is the number of finalized
\* sessions in the session list plus the number of connections opened and
\* not yet closed; so it is never less than the length of the session list
\* (nor than what /api/sessions shows of it), and no step decreases it.
C19_TotalSessionsIsFinalizedPlusOpen ==
  /\ [](/\ totalSessions = Len(sessions) + Cardinality(NotYetClosed)
        /\ totalSessions >= Len(sessions)
        /\ response.kind = "sessions" =>
             /\ response.totalSessions = totalSessions
             /\ response.totalSessions >=
                  Len(response.sessions) + response.currentConnections)
  /\ [][totalSessions' >= totalSessions]_vars

\* /api/sessions read while one connection has closed and another is open:
\* two sessions counted, one of them finalized.
C19_Witness ==
  /\ response.kind = "sessions"
  /\ response.totalSessions = 2
  /\ Len(response.sessions) = 1
  /\ response.currentConnections = 1
  /\ Cardinality(NotYetClosed) = 1

(***************************************************************************)
(* Transport errors: connections open, the first one receives a record,    *)
(* they fail and close while time passes.  The socket's close event        *)
(* follows its error event and the event loop runs the close handler: a    *)
(* failing connection does not stay failing for ever.                      *)
(***************************************************************************)
NextErrors ==
  \/ \E d \in SessionTickSteps : Tick(d)
  \/ \E c \in Conns : Connect(c)
  \/ \E m \in SessionPayloads : emotionData = <<>> /\ Message(1, m)
  \/ \E c \in Conns : Error(c)
  \/ \E c \in Conns : Close(c)

CloseAfterError(c) == conn[c].state = "failing" /\ Close(c)

SpecErrors == Init /\ [][NextErrors]_vars

SpecErrorsFair == SpecErrors /\ \A c \in Conns : WF_vars(CloseAfterError(c))

\* C11: a transport error on an open connection changes no stored record
\* and no counter (nor the session list); the connection then closes, and
\* its close appends one Session with the time elapsed since the open as
\* duration; a session is appended once per connection, never twice.
C11_ErrorEndsInOneFinalizedSession ==
  /\ [][\A c \in Conns :
          /\ Error(c) =>
               /\ conn[c].state = "open"
               /\ UNCHANGED <<emotionData, emotionDistribution, totalSessions,
                              sessions>>
          /\ (conn[c].state = "failing" /\ conn'[c].state # "failing") =>
               /\ conn'[c].state = "closed"
               /\ sessions' = Append(sessions, Last(sessions'))
               /\ Last(sessions').start = conn[c].openedAt
               /\ RatEq(Last(sessions').duration,
                        Rat(now - conn[c].openedAt, MsPerSecond))]_vars
  /\ [](Len(sessions) = Cardinality(ClosedConns))
  /\ \A c \in Conns : (conn[c].state = "failing") ~> (conn[c].state = "closed")

\* A connection that received a record, had a transport error two seconds
\* after its open and has closed: one session of two seconds, the record
\* and its counter still there.
C11_Witness ==
  /\ conn[1].errored
  /\ conn[1].state = "closed"
  /\ Len(sessions) = 1
  /\ sessions[1].duration = Rat(2 * MsPerSecond, MsPerSecond)
  /\ Len(emotionData) = 1
  /\ emotionDistribution["happy"] = 1

(***************************************************************************)
(* Shutdown: connections open, receive records and close, the process is   *)
(* interrupted at any moment.  The event loop runs the callback of         *)
(* server.close when it is due; nothing makes a client close its socket.   *)
(***************************************************************************)
NextShutdown ==
  \/ \E c \in Conns : Connect(c)
  \/ \E c \in Conns, m \in SessionPayloads : ingested < MaxIngest /\ Message(c, m)
  \/ \E c \in Conns : Close(c)
  \/ GetHealth
  \/ Interrupt
  \/ ServerClosed

SpecShutdown == Init /\ [][NextShutdown]_vars

SpecShutdownFair == SpecShutdown /\ WF_vars(ServerClosed)

\* C17: after the interrupt no new connection is accepted, and the process
\* eventually exits, whether or not connections are open at the interrupt.
C17_InterruptStopsAcceptingAndExits ==
  /\ [][serverState # "listening" =>
          /\ totalSessions' = totalSessions
          /\ \A c \in Conns : conn[c].state = "idle" => conn'[c].state = "idle"]_vars
  /\ (serverState = "closing") ~> (serverState = "exited")

(***************************************************************************)
(* The five-minute window: one connection whose records age while time     *)
(* passes in steps of 1 ms and of one millisecond short of five minutes.   *)
(***************************************************************************)
WindowTickSteps == {1, WindowMs - 1}
WindowPayloads == {Payload(<<"happy">>, <<60>>, <<1000>>), Payload(<<"sad">>, <<100>>, <<1000>>)}

NextWindow ==
  \/ \E d \in WindowTickSteps : Tick(d)
  \/ Connect(1)
  \/ \E m \in WindowPayloads : ingested < MaxIngest /\ Message(1, m)
  \/ GetStats

SpecWindow == Init /\ [][NextWindow]_vars

(***************************************************************************)
(* Claims about the window.                                                *)
(***************************************************************************)
AgeMs(e) == now - e.receivedAt

RECURSIVE SumConfidenceAt(_)
SumConfidenceAt(idx) ==
  IF idx = {} THEN 0
  ELSE LET i == CHOOSE x \in idx : TRUE
       IN emotionData[i].confidence + SumConfidenceAt(idx \ {i})

\* The mean confidence of the stored records at the positions idx.
MeanConfidenceAt(idx) ==
  IF idx = {} THEN RatZero ELSE Rat(SumConfidenceAt(idx), Cardinality(idx))

\* The positions of the stored records aged at most, and less than, five
\* minutes.
AgedAtMostWindow == {i \in 1..Len(emotionData) : AgeMs(emotionData[i]) <= WindowMs}
AgedUnderWindow == {i \in 1..Len(emotionData) : AgeMs(emotionData[i]) < WindowMs}

\* C8 (as claimed): confidenceAverage is the mean confidence of the records
\* whose age at query time is at most 300,000 ms (a record leaves the window
\* once its age exceeds 300,000 ms and not before), and 0 when there is none.
C8_WindowKeepsAgeUpTo300000 ==
  response.kind = "stats" =>
    /\ RatEq(response.confidenceAverage, MeanConfidenceAt(AgedAtMostWindow))
    /\ response.recentEmotionsCount = Cardinality(AgedAtMostWindow)

\* C8 (amended): confidenceAverage is the mean confidence of the records
\* whose age at query time is less than 300,000 ms (a record leaves the
\* window once its age reaches 300,000 ms), and 0 when there is none.
C8_WindowKeepsAgeUnder300000 ==
  response.kind = "stats" =>
    /\ RatEq(response.confidenceAverage, MeanConfidenceAt(AgedUnderWindow))
    /\ response.recentEmotionsCount = Cardinality(AgedUnderWindow)

\* Statistics taken when one stored record is exactly 300,000 ms old and
\* another is 1 ms old: only the second one counts.
C8_Witness ==
  /\ response.kind = "stats"
  /\ \E i \in 1..Len(emotionData) : AgeMs(emotionData[i]) = WindowMs
  /\ \E i \in 1..Len(emotionData) :
       /\ AgeMs(emotionData[i]) = 1
       /\ response.confidenceAverage = Rat(emotionData[i].confidence, 1)
  /\ response.recentEmotionsCount = 1
  /\ response.totalEmotionsCount = 2

(***************************************************************************)
(* States reached by one connection, opened at time 0, after a given run   *)
(* of stored records.                                                      *)
(***************************************************************************)
RECURSIVE Copies(_, _)
Copies(x, n) == IF n = 0 THEN <<>> ELSE <<x>> \o Copies(x, n - 1)

CountOf(e, data) == Cardinality({i \in 1..Len(data) : data[i].emotion = e})

\* The state after connection 1 was opened and the records of `data` were
\* received on it, in order, fewer than would cause a trim.
AfterRecords(data) ==
  /\ now = 0
  /\ ticks = 0
  /\ conn = [c \in Conns |->
               IF c = 1
                 THEN [state |-> "open", sessionStart |-> 0, allocated |-> 1,
                       openedAt |-> 0, closedAt |-> 0, errored |-> FALSE]
                 ELSE IdleConn]
  /\ totalSessions = 1
  /\ sessions = <<>>
  /\ emotionData = data
  /\ emotionDistribution = [e \in Emotions |-> CountOf(e, data)]
  /\ ingested = Len(data)
  /\ trims = 0
  /\ lastDrop = NoDrop
  /\ response = NoResponse
  /\ serverState = "listening"
  /\ client = ClientInit

\* The record stored for {emotion: e, confidence: 1, timestamp: t}.
RecordAtZero(e, t) == StoredRecord(Payload(<<e>>, <<100>>, <<t>>), 1, 0)

(***************************************************************************)
(* The peak emotion, over every distribution with counts up to MaxCount.   *)
(***************************************************************************)
RECURSIVE RecordsOf(_, _)
\* d[e] records of each category e, from the i-th category on.
RecordsOf(d, i) ==
  IF i > Len(EmotionOrder) THEN <<>>
  ELSE Copies(RecordAtZero(EmotionOrder[i], 1000), d[EmotionOrder[i]])
         \o RecordsOf(d, i + 1)

InitPeak == \E d \in [Emotions -> 0..MaxCount] : AfterRecords(RecordsOf(d, 1))

NextPeak == GetStats

SpecPeak == InitPeak /\ [][NextPeak]_vars

IndexOf(e) == CHOOSE i \in 1..Len(EmotionOrder) : EmotionOrder[i] = e
Greatest(dist) == CHOOSE n \in {dist[e] : e \in Emotions} : \A e \in Emotions : dist[e] <= n

\* C6: peakEmotion is the category with the greatest count, the first in
\* enumeration order among those that share it, and neutral when every
\* count is zero.
C6_PeakIsFirstGreatest ==
  response.kind = "stats" =>
    LET dist == response.emotionDistribution
        peak == response.peakEmotion
    IN IF \A e \in Emotions : dist[e] = 0
         THEN peak = "neutral"
         ELSE /\ peak \in Emotions
              /\ dist[peak] = Greatest(dist)
              /\ \A e \in Emotions :
                   dist[e] = Greatest(dist) => IndexOf(peak) <= IndexOf(e)

\* Sad and surprised share the greatest count, happy is below it: the peak
\* is sad.
C6_Witness ==
  /\ response.kind = "stats"
  /\ response.emotionDistribution["sad"] = 2
  /\ response.emotionDistribution["surprised"] = 2
  /\ response.emotionDistribution["happy"] = 1
  /\ response.peakEmotion = "sad"

(***************************************************************************)
(* StatsPanel: the "Most Common Emotion" card.                             *)
(***************************************************************************)
\* Object.entries(stats.emotionDistribution): the [key, count] pairs in the
\* insertion order of the keys, which JSON keeps.
Entries(dist) == [i \in 1..Len(EmotionOrder) |-> <<EmotionOrder[i], dist[EmotionOrder[i]]>>]

\* The comparator ([,a], [,b]) => b - a.
ByCountDescending(x, y) == y[2] - x[2]

\* Array.prototype.sort is stable: an entry goes behind every entry that
\* the comparator does not put after it.
InsertEntry(sorted, x) ==
  LET before == {i \in 1..Len(sorted) : ByCountDescending(sorted[i], x) <= 0}
      k == Cardinality({i \in 1..Len(sorted) : \A j \in 1..i : j \in before})
  IN SubSeq(sorted, 1, k) \o <<x>> \o SubSeq(sorted, k + 1, Len(sorted))

RECURSIVE SortEntries(_)
SortEntries(entries) ==
  IF entries = <<>> THEN <<>>
  ELSE InsertEntry(SortEntries(SubSeq(entries, 1, Len(entries) - 1)),
                   entries[Len(entries)])

\* Lines 32-33.
mostCommonEmotion(dist) == SortEntries(Entries(dist))[1]

\* Line 70: {mostCommonEmotion?.[0] || 'None'}
DisplayedEmotion(dist) ==
  IF TruthyStr(<<mostCommonEmotion(dist)[1]>>) THEN mostCommonEmotion(dist)[1] ELSE "None"

\* C20: for every distribution /api/stats returns, the all-zero one and the
\* ones with ties included, the category the panel shows as "Most Common
\* Emotion" is the peakEmotion of the same response.
C20_PanelShowsServerPeak ==
  response.kind = "stats" =>
    DisplayedEmotion(response.emotionDistribution) = response.peakEmotion

(***************************************************************************)
(* Paging, over every store of up to MaxStored records (the k-th has       *)
(* timestamp k), every limit up to one past MaxStored and every offset up  *)
(* to one past half of it.                                                 *)
(***************************************************************************)
Stored(n) == [k \in 1..n |-> RecordAtZero("happy", k)]

InitPage == \E n \in 0..MaxStored : AfterRecords(Stored(n))

PageLimits == {<<>>} \cup {<<k>> : k \in 0..(MaxStored + 1)}
PageOffsets == {<<>>} \cup {<<k>> : k \in 0..((MaxStored \div 2) + 1)}

NextPage == \E lq \in PageLimits, oq \in PageOffsets : GetEmotions(lq, oq)

SpecPage == InitPage /\ [][NextPage]_vars

Min(a, b) == IF a < b THEN a ELSE b

\* C7: with limit L >= 1 and offset O >= 0 against N stored records the page
\* is, in stored order, the last min(L, N) records without the first O of
\* them, and total is N.
C7_PageIsLastLimitThenOffset ==
  (response.kind = "emotions" /\ response.limit >= 1 /\ response.offset >= 0) =>
    LET N == Len(emotionData)
        L == response.limit
        O == response.offset
        taken == Min(L, N)
        size == IF taken > O THEN taken - O ELSE 0
    IN /\ response.total = N
       /\ Len(response.emotions) = size
       /\ \A i \in 1..size :
            response.emotions[i] = Projected(emotionData[N - taken + O + i])

\* limit=10 and offset=5 against 20 records: positions 15..19 (from 0).
C7_Witness ==
  /\ response.kind = "emotions"
  /\ response.total = 20
  /\ response.limit = 10
  /\ response.offset = 5
  /\ Len(response.emotions) = 5
  /\ \A i \in 1..5 : response.emotions[i].timestamp = 15 + i

(***************************************************************************)
(* Trimming: one connection keeps sending records (the k-th record ever    *)
(* sent has timestamp k) from a store that is close to a trim check, while *)
(* the health endpoint is read, until it closes.                           *)
(***************************************************************************)
TrimStarts == {KeepRecords - 5, KeepRecords + TrimEvery - 5}
TrimCap == KeepRecords + TrimEvery - 5 + MaxTrimIngest

InitTrim == \E n \in TrimStarts : AfterRecords(Stored(n))

NextTrim ==
  \/ /\ ingested < TrimCap
     /\ Message(1, Payload(<<"happy">>, <<100>>, <<ingested + 1>>))
  \/ GetHealth
  \/ Close(1)

SpecTrim == InitTrim /\ [][NextTrim]_vars

\* C2 (as claimed): once 1000 records have been ingested and a trim has
\* been made, the stored-record count never exceeds 1000.
C2_NeverAbove1000 ==
  (ingested >= KeepRecords /\ trims >= 1) => Len(emotionData) <= KeepRecords

\* C2 (amended): once 1000 records have been ingested the stored-record
\* count never exceeds 1099.
C2_NeverAbove1099 ==
  ingested >= KeepRecords => Len(emotionData) <= KeepRecords + TrimEvery - 1

\* After a trim the store has grown back to 1099 records.
C2_Witness ==
  /\ trims >= 1
  /\ Len(emotionData) = KeepRecords + TrimEvery - 1

\* C18: the stored-record count never exceeds 1099.  An append that brings
\* the count to a multiple of 100 greater than 1000 leaves exactly the 1000
\* most recent records (the new one last) in their original order; every
\* other append keeps all the records there were; a step that appends
\* nothing (a health query, a close) leaves the sequence as it is.
C18_TrimExactlyAtMultiplesOf100Above1000 ==
  /\ [](/\ Len(emotionData) <= KeepRecords + TrimEvery - 1
        /\ response.kind = "health" =>
             response.emotionDataCount <= KeepRecords + TrimEvery - 1)
  /\ [][IF ingested' = ingested + 1
          THEN LET count == Len(emotionData) + 1
               IN /\ Last(emotionData').timestamp = ingested + 1
                  /\ IF count % TrimEvery = 0 /\ count > KeepRecords
                       THEN /\ Len(emotionData') = KeepRecords
                            /\ \A i \in 1..(KeepRecords - 1) :
                                 emotionData'[i] = emotionData[count - KeepRecords + i]
                            /\ trims' = trims + 1
                       ELSE /\ Len(emotionData') = count
                            /\ SubSeq(emotionData', 1, count - 1) = emotionData
                            /\ trims' = trims
          ELSE emotionData' = emotionData /\ trims' = trims]_vars

\* Right after the second trim of a run: records 201..1200 are stored, in
\* that order, and the health endpoint reports 1000 of them.
C18_Witness ==
  /\ trims = 2
  /\ response.kind = "health"
  /\ response.emotionDataCount = KeepRecords
  /\ \A i \in 1..KeepRecords : emotionData[i].timestamp = 2 * TrimEvery + i

(***************************************************************************)
(* The client under every interleaving of model loading, toggles, interval *)
(* firings, detection results and socket events, for MaxSamples firings.   *)
(***************************************************************************)
ClientEmotions == {"happy", "sad"}
ClientConfidences == {60, 100}

NextClient ==
  \/ ModelLoaded
  \/ toggleDetection
  \/ \E ready \in BOOLEAN : now < MaxSamples * SampleMs /\ IntervalTick(ready)
  \/ \E o \in DetectionOutcomes, e \in ClientEmotions, c \in ClientConfidences :
       DetectionDone(o, e, c)
  \/ SocketOpen
  \/ SocketClose

SpecClient == Init /\ [][NextClient]_vars

\* C13: a record goes onto the socket only in a step taken while the socket
\* is open and detection is enabled, and it is the record delivered in that
\* very step (nothing produced earlier is sent later).
C13_SendsOnlyWhenOpenAndDetecting ==
  [][client'.sent # client.sent =>
       /\ client.readyState = "open"
       /\ client.isDetecting
       /\ client'.delivered # client.delivered
       /\ client'.sent = Append(client.sent, Last(client'.delivered))]_vars

\* C14: at most one detection call is in flight at any time.
C14_AtMostOneDetectionInFlight == client.pending <= 1

\* C15: while detection is disabled there is no interval, no detection
\* call is started, and nothing is drawn on the overlay.
C15_DisabledMeansNoTickAndClearOverlay ==
  /\ [](~client.isDetecting => ~client.interval /\ ~client.overlay)
  /\ [][client'.pending > client.pending => client.isDetecting]_vars

(***************************************************************************)
(* The trend list: detection is toggled at any moment while the interval   *)
(* fires, each firing after the previous detection has delivered its       *)
(* record, for MaxSamples firings more than the list can hold.             *)
(***************************************************************************)
TrendSamples == TrendKeep + 1 + MaxSamples

NextTrend ==
  \/ ModelLoaded
  \/ toggleDetection
  \/ /\ client.pending = 0
     /\ now < TrendSamples * SampleMs
     /\ IntervalTick(TRUE)
  \/ DetectionDone("face", "happy", 100)

SpecTrend == Init /\ [][NextTrend]_vars

\* C16: the trend list holds at most 50 records and is, in order, the most
\* recent min(n, 50) of the n records delivered since detection was last
\* enabled.
C16_TrendIsLast50Delivered ==
  LET n == Len(client.delivered)
      k == Min(n, TrendKeep + 1)
  IN /\ Len(client.emotions) <= TrendKeep + 1
     /\ Len(client.emotions) = k
     /\ \A i \in 1..k : client.emotions[i] = client.delivered[n - k + i]

\* Detection was enabled again after one record, and 52 records were
\* delivered since: the list holds the last 50 of them.
C16_Witness ==
  /\ Len(client.delivered) = TrendKeep + 3
  /\ client.delivered[1].timestamp = 2 * SampleMs
  /\ Len(client.emotions) = TrendKeep + 1
  /\ client.emotions[1].timestamp = 4 * SampleMs
  /\ Last(client.emotions).timestamp = (TrendKeep + 4) * SampleMs

====
